---- MODULE Spec2Model ----
(***************************************************************************)
(* A model of pybrainfuck (bf.py): the incremental parser BrainfuckParser  *)
(* and the execution engine BrainfuckInterpreter.  Indices into code and   *)
(* memory are 0-based as in the source; the TLA+ sequences that hold them  *)
(* are read at index + 1.                                                  *)
(***************************************************************************)
EXTENDS Integers, Sequences, FiniteSets, TLC

VARIABLES
    \* BrainfuckParser fields
    level, buffer,
    \* observation of the parse calls made on the parser instance
    parse_out, parse_acc, parse_prev, parse_prev2,
    \* BrainfuckInterpreter fields; input and output are the contents of the
    \* two streams: what is left to read and what has been written
    input, output, wrap_values, max_ops, mem, self_pointer,
    \* the locals of the running exec call and where the call stands
    status, code, k, goto, pointer,
    value_ops_count, pointer_ops_count, io_ops_count, jump_ops_count, ops_count,
    \* observation of the exec calls made on the engine
    nexec, applied, executed, hist

parser_vars == <<level, buffer, parse_out, parse_acc, parse_prev, parse_prev2>>

engine_vars == <<input, output, wrap_values, max_ops, mem, self_pointer>>

local_vars == <<status, code, k, goto, pointer, value_ops_count, pointer_ops_count,
                io_ops_count, jump_ops_count, ops_count>>

obs_vars == <<nexec, applied, executed, hist>>

vars == <<parser_vars, engine_vars, local_vars, obs_vars>>

----------------------------------------------------------------------------
(* Bounds of the model *)

\* longest input of one parse call
MaxInputLen == 2

\* longest input accumulated over successive Incomplete parse calls
MaxAccLen == 6

\* the bytes parse inputs are made of: + . [ ] and a blank
ParseBytes == {43, 46, 91, 93, 32}

RECURSIVE SeqsUpTo(_, _)
\* all sequences over S of length 0..n
SeqsUpTo(S, n) ==
    IF n = 0 THEN {<<>>}
    ELSE LET shorter == SeqsUpTo(S, n - 1)
         IN  shorter \cup {Append(s, x) : s \in {t \in shorter : Len(t) = n - 1}, x \in S}

ParseInputs == SeqsUpTo(ParseBytes, MaxInputLen)

----------------------------------------------------------------------------
(* BrainfuckParser *)

\* the eight operator bytes + - > < [ ] , .
Operators == {43, 45, 62, 60, 91, 93, 44, 46}

\* self.buffer is None, or a deque of kept bytes
NoneBuffer == [none |-> TRUE, items |-> <<>>]

Deque(items) == [none |-> FALSE, items |-> items]

\* one iteration of the while loop of parse: st is the loop's c and buffer,
\* err says that SyntaxError was raised
ParseTokenKeepAll(st, token) ==
    IF token = 93
    THEN IF st.buffer = <<>>
         THEN [st EXCEPT !.err = TRUE]
         ELSE IF st.c = 0 \/ st.buffer[Len(st.buffer)] = 91
              THEN [st EXCEPT !.err = TRUE]
              ELSE [c |-> st.c - 1, buffer |-> Append(st.buffer, token), err |-> FALSE]
    ELSE [c |-> IF token = 91 THEN st.c + 1 ELSE st.c,
          buffer |-> Append(st.buffer, token), err |-> FALSE]

ParseTokenNoDepthCheck(st, token) ==
    IF token \notin Operators
    THEN st
    ELSE IF token = 93
         THEN IF st.buffer = <<>> \/ st.buffer[Len(st.buffer)] = 91
              THEN [st EXCEPT !.err = TRUE]
              ELSE [c |-> st.c - 1, buffer |-> Append(st.buffer, token), err |-> FALSE]
         ELSE [c |-> IF token = 91 THEN st.c + 1 ELSE st.c,
               buffer |-> Append(st.buffer, token), err |-> FALSE]

ParseTokenNoEmptyCheck(st, token) ==
    IF token \notin Operators
    THEN st
    ELSE IF token = 93
         THEN IF st.buffer = <<>> \/ st.c = 0
              THEN [st EXCEPT !.err = TRUE]
              ELSE [c |-> st.c - 1, buffer |-> Append(st.buffer, token), err |-> FALSE]
         ELSE [c |-> IF token = 91 THEN st.c + 1 ELSE st.c,
               buffer |-> Append(st.buffer, token), err |-> FALSE]

ParseToken(st, token) ==
    IF token \notin Operators
    THEN st
    ELSE IF token = 93
         THEN IF st.buffer = <<>>
              THEN [st EXCEPT !.err = TRUE]
              ELSE IF st.c = 0 \/ st.buffer[Len(st.buffer)] = 91
                   THEN [st EXCEPT !.err = TRUE]
                   ELSE [c |-> st.c - 1, buffer |-> Append(st.buffer, token), err |-> FALSE]
         ELSE [c |-> IF token = 91 THEN st.c + 1 ELSE st.c,
               buffer |-> Append(st.buffer, token), err |-> FALSE]

RECURSIVE ParseRange(_, _, _, _)
\* the iterations of the while loop of parse over the tokens lo..hi, in their
\* order and up to SyntaxError: those of the first half, then those of the
\* second half from the state the first half leaves
ParseRange(st, tokens, lo, hi) ==
    IF st.err \/ lo > hi
    THEN st
    ELSE IF lo = hi
         THEN ParseToken(st, tokens[lo])
         ELSE LET mid == (lo + hi) \div 2
              IN  ParseRange(ParseRange(st, tokens, lo, mid), tokens, mid + 1, hi)

\* the while loop of parse from the i-th token on, up to SyntaxError or StopIteration
ParseLoop(st, tokens, i) == ParseRange(st, tokens, i, Len(tokens))

\* where the loop starts: c and buffer taken from the fields
ParseEntryForgetBuffer(self) ==
    [c |-> self.level, buffer |-> <<>>, err |-> FALSE]

ParseEntry(self) ==
    [c |-> self.level,
     buffer |-> IF self.buffer.none THEN <<>> ELSE self.buffer.items,
     err |-> FALSE]

\* what parse leaves in the fields and gives back, from the state the loop ended in
ParseExitKeepState(st) ==
    IF st.err
    THEN [outcome |-> "SyntaxError", program |-> <<>>, level |-> 0, buffer |-> NoneBuffer]
    ELSE IF st.c > 0
         THEN [outcome |-> "Incomplete", program |-> <<>>,
               level |-> st.c, buffer |-> Deque(st.buffer)]
         ELSE [outcome |-> "Complete", program |-> st.buffer,
               level |-> st.c, buffer |-> Deque(st.buffer)]

ParseExitErrorKeepsPartial(st) ==
    IF st.err
    THEN [outcome |-> "SyntaxError", program |-> <<>>,
          level |-> st.c, buffer |-> Deque(st.buffer)]
    ELSE IF st.c > 0
         THEN [outcome |-> "Incomplete", program |-> <<>>,
               level |-> st.c, buffer |-> Deque(st.buffer)]
         ELSE [outcome |-> "Complete", program |-> st.buffer,
               level |-> 0, buffer |-> NoneBuffer]

ParseExitIncompleteAsError(st) ==
    IF st.err \/ st.c > 0
    THEN [outcome |-> "SyntaxError", program |-> <<>>, level |-> 0, buffer |-> NoneBuffer]
    ELSE [outcome |-> "Complete", program |-> st.buffer, level |-> 0, buffer |-> NoneBuffer]

ParseExit(st) ==
    IF st.err
    THEN [outcome |-> "SyntaxError", program |-> <<>>, level |-> 0, buffer |-> NoneBuffer]
    ELSE IF st.c > 0
         THEN [outcome |-> "Incomplete", program |-> <<>>,
               level |-> st.c, buffer |-> Deque(st.buffer)]
         ELSE [outcome |-> "Complete", program |-> st.buffer,
               level |-> 0, buffer |-> NoneBuffer]

\* BrainfuckParser.parse on a parser whose fields are self, given bytes
parse(self, bytes) == ParseExit(ParseLoop(ParseEntry(self), bytes, 1))

\* BrainfuckParser.__init__
NewParser == [level |-> 0, buffer |-> NoneBuffer]

\* bf_parse: a fresh parser, one call
bf_parse(bytes) == parse(NewParser, bytes)

\* the inputs given to the parser since its last Complete or SyntaxError
Accumulated(bytes) ==
    IF parse_out.outcome = "Incomplete" THEN parse_acc \o bytes ELSE bytes

\* a parse call on the parser instance
Parse(bytes) ==
    /\ Len(Accumulated(bytes)) <= MaxAccLen
    /\ LET r == parse([level |-> level, buffer |-> buffer], bytes)
       IN  /\ level' = r.level
           /\ buffer' = r.buffer
           /\ parse_out' = [outcome |-> r.outcome, program |-> r.program]
    /\ parse_prev' = parse_out.outcome
    /\ parse_prev2' = parse_prev
    /\ parse_acc' = Accumulated(bytes)
    /\ UNCHANGED <<engine_vars, local_vars, obs_vars>>

----------------------------------------------------------------------------
(* BrainfuckInterpreter *)

\* the largest max_ops an engine is constructed with
MaxOps == 30

\* the largest mem_size an engine is constructed with
MaxMem == 2

\* longest generated code of an exec call
MaxCodeLen == 3

\* max_ops < 1 is refused by the constructor
MinMaxOps == 1

\* the contents of the input stream an engine is constructed with, as the
\* code points read(1) yields one by one
InputStreams == {<<>>, <<255, 1>>, <<256, 3, 2>>}

\* programs of the docstrings and of the tests
ExamplePrograms ==
    { <<43, 43, 91, 46, 45, 93>>,                                  \* ++[.-]
      <<43, 43, 43>>,                                              \* +++
      <<91, 62, 46, 43, 43, 60, 45, 93, 62>>,                      \* [>.++<-]>
      <<46, 60>>,                                                  \* .<
      <<43, 43, 43, 91, 62, 44, 43, 43, 46, 60, 45, 93>>,          \* +++[>,++.<-]
      <<43, 43, 91, 62, 43, 60, 45, 93>>,                          \* ++[>+<-]
      <<91, 91, 43, 93, 93>>,                                      \* [[+]]
      <<91, 43, 45, 91, 43, 93, 93>>,                              \* [+-[+]]
      <<91, 91, 62, 43, 43, 60, 45, 93, 60, 45, 93>>,              \* [[>++<-]<-]
      <<91, 62, 43, 91, 62, 43, 45, 60, 93, 60, 45, 93>>,          \* [>+[>+-<]<-]
      <<43, 91, 91, 45, 93, 93>>,                                  \* +[[-]]
      <<43, 45, 91, 43, 93, 62, 60, 91, 45, 93, 45, 43>> }         \* +-[+]><[-]-+

\* programs that never end of themselves: they run into max_ops (or into
\* OverflowError), as the fib and squares samples of the tests do
EndlessPrograms ==
    { <<43, 91, 43, 93>>,                                          \* +[+]
      <<43, 91, 91, 45, 93, 43, 93>>,                              \* +[[-]+]
      <<45, 91, 62, 43, 60, 93>> }                                 \* -[>+<]

Codes == SeqsUpTo(Operators, MaxCodeLen) \cup ExamplePrograms \cup EndlessPrograms

\* bytearray(mem_size)
ZeroMem(mem_size) == [i \in 0 .. mem_size - 1 |-> 0]

\* the finally clause of exec, on an exception e raised inside the try
RaiseNoCommit(s, e) == [s EXCEPT !.status = e]

Raise(s, e) == [s EXCEPT !.status = e, !.self_pointer = s.pointer]

\* the metrics update at the head of the loop body
CountJumpsNotInTotal(s, instr) ==
    [s EXCEPT !.value_ops_count = IF instr \in {43, 45} THEN @ + 1 ELSE @,
              !.pointer_ops_count = IF instr \in {60, 62} THEN @ + 1 ELSE @,
              !.io_ops_count = IF instr \in {44, 46} THEN @ + 1 ELSE @,
              !.jump_ops_count = IF instr \in {91, 93} THEN @ + 1 ELSE @,
              !.ops_count = IF instr \in {91, 93} THEN @ ELSE @ + 1]

CountLoopEndsNotCounted(s, instr) ==
    [s EXCEPT !.value_ops_count = IF instr \in {43, 45} THEN @ + 1 ELSE @,
              !.pointer_ops_count = IF instr \in {60, 62} THEN @ + 1 ELSE @,
              !.io_ops_count = IF instr \in {44, 46} THEN @ + 1 ELSE @,
              !.jump_ops_count = IF instr = 91 THEN @ + 1 ELSE @,
              !.ops_count = IF instr = 93 THEN @ ELSE @ + 1]

Count(s, instr) ==
    [s EXCEPT !.value_ops_count = IF instr \in {43, 45} THEN @ + 1 ELSE @,
              !.pointer_ops_count = IF instr \in {60, 62} THEN @ + 1 ELSE @,
              !.io_ops_count = IF instr \in {44, 46} THEN @ + 1 ELSE @,
              !.jump_ops_count = IF instr \in {91, 93} THEN @ + 1 ELSE @,
              !.ops_count = @ + 1]

\* Reached max instructions limit?
ReachedLimitNever(s) == FALSE

ReachedLimitAtMax(s) == s.ops_count >= s.max_ops

ReachedLimit(s) == s.ops_count > s.max_ops

\* instr == 43: increment value
IncValueUnchecked(s) ==
    [s EXCEPT !.mem[s.pointer] = (@ + 1) % 256]

IncValue(s) ==
    IF s.mem[s.pointer] = 255 /\ ~s.wrap_values
    THEN Raise(s, "OverflowError")
    ELSE [s EXCEPT !.mem[s.pointer] = (@ + 1) % 256]

\* instr == 45: decrement value
DecValue(s) ==
    IF s.mem[s.pointer] = 0 /\ ~s.wrap_values
    THEN Raise(s, "OverflowError")
    ELSE [s EXCEPT !.mem[s.pointer] = (@ + 255) % 256]

\* instr == 62: increment pointer; len(mem) is the size of the domain of mem
IncPointerUnchecked(s) ==
    [s EXCEPT !.pointer = @ + 1]

IncPointer(s) ==
    IF s.pointer = Cardinality(DOMAIN s.mem) - 1
    THEN Raise(s, "IndexError")
    ELSE [s EXCEPT !.pointer = @ + 1]

\* instr == 60: decrement pointer
DecPointer(s) ==
    IF s.pointer = 0
    THEN Raise(s, "IndexError")
    ELSE [s EXCEPT !.pointer = @ - 1]

\* instr == 46: output.write(chr(mem[pointer])), output.flush()
Write(s) == [s EXCEPT !.output = Append(@, s.mem[s.pointer])]

\* instr == 44: mem[pointer] = ord(input.read(1)) % 256; at the end of the
\* stream read(1) gives the empty string and ord raises TypeError
Read(s) ==
    IF s.input = <<>>
    THEN Raise(s, "TypeError")
    ELSE [s EXCEPT !.mem[s.pointer] = Head(s.input) % 256, !.input = Tail(@)]

RECURSIVE Scan(_, _, _)
\* the inner while loop of the skip, entered with instr = code[kk]: the index
\* it stops at, or -1 when code[kk] is out of range (IndexError)
Scan(prog, kk, c) ==
    IF kk >= Len(prog)
    THEN -1
    ELSE LET instr == prog[kk + 1]
         IN  IF instr # 93 \/ c > 0
             THEN Scan(prog, kk + 1,
                       IF instr = 91 THEN c + 1 ELSE IF instr = 93 THEN c - 1 ELSE c)
             ELSE kk

\* instr == 91: begin while
BeginWhile(s) ==
    IF s.mem[s.pointer] # 0
    THEN [s EXCEPT !.goto = Append(@, s.k)]
    ELSE LET stop == Scan(s.code, s.k + 2, 0)
         IN  IF stop = -1 THEN Raise(s, "IndexError") ELSE [s EXCEPT !.k = stop]

\* instr == 93: end while; goto[-1] and goto.pop() raise IndexError on an
\* empty deque
EndWhileNeverRepeats(s) ==
    IF s.goto = <<>>
    THEN Raise(s, "IndexError")
    ELSE [s EXCEPT !.goto = SubSeq(@, 1, Len(@) - 1)]

EndWhile(s) ==
    IF s.goto = <<>>
    THEN Raise(s, "IndexError")
    ELSE IF s.mem[s.pointer] # 0
         THEN [s EXCEPT !.k = s.goto[Len(s.goto)]]
         ELSE [s EXCEPT !.goto = SubSeq(@, 1, Len(@) - 1)]

\* the branch of the loop body for instr
Apply(s, instr) ==
    CASE instr = 43 -> IncValue(s)
      [] instr = 45 -> DecValue(s)
      [] instr = 62 -> IncPointer(s)
      [] instr = 60 -> DecPointer(s)
      [] instr = 46 -> Write(s)
      [] instr = 44 -> Read(s)
      [] instr = 91 -> BeginWhile(s)
      [] instr = 93 -> EndWhile(s)

\* one iteration of the main loop of exec (k < n), with "Go to the next
\* instruction" when nothing was raised
ExecStep(s) ==
    LET instr == s.code[s.k + 1]
        counted == Count(s, instr)
    IN  IF ReachedLimit(counted)
        THEN Raise(counted, "RuntimeError")
        ELSE LET after == Apply(counted, instr)
             IN  IF after.status = "running"
                 THEN [after EXCEPT !.k = @ + 1]
                 ELSE after

\* exec up to the main loop: the code is parsed by a fresh parser, then the
\* locals are set
ExecEntryRunsIncomplete(s, raw) ==
    LET parsed == bf_parse(raw)
        cleared == [s EXCEPT !.code = <<>>, !.k = 0, !.goto = <<>>,
                             !.pointer = s.self_pointer,
                             !.value_ops_count = 0, !.pointer_ops_count = 0,
                             !.io_ops_count = 0, !.jump_ops_count = 0, !.ops_count = 0]
    IN  CASE parsed.outcome = "SyntaxError" -> [cleared EXCEPT !.status = "SyntaxError"]
          [] parsed.outcome = "Incomplete" ->
                [cleared EXCEPT !.status = "running",
                                !.code = SelectSeq(raw, LAMBDA b : b \in Operators)]
          [] parsed.outcome = "Complete" ->
                [cleared EXCEPT !.status = "running", !.code = parsed.program]

ExecEntryPointerZero(s, raw) ==
    LET parsed == bf_parse(raw)
        cleared == [s EXCEPT !.code = <<>>, !.k = 0, !.goto = <<>>,
                             !.pointer = 0,
                             !.value_ops_count = 0, !.pointer_ops_count = 0,
                             !.io_ops_count = 0, !.jump_ops_count = 0, !.ops_count = 0]
    IN  CASE parsed.outcome = "SyntaxError" -> [cleared EXCEPT !.status = "SyntaxError"]
          [] parsed.outcome = "Incomplete" -> [cleared EXCEPT !.status = "EOFError"]
          [] parsed.outcome = "Complete" ->
                [cleared EXCEPT !.status = "running", !.code = parsed.program]

ExecEntry(s, raw) ==
    LET parsed == bf_parse(raw)
        cleared == [s EXCEPT !.code = <<>>, !.k = 0, !.goto = <<>>,
                             !.pointer = s.self_pointer,
                             !.value_ops_count = 0, !.pointer_ops_count = 0,
                             !.io_ops_count = 0, !.jump_ops_count = 0, !.ops_count = 0]
    IN  CASE parsed.outcome = "SyntaxError" -> [cleared EXCEPT !.status = "SyntaxError"]
          [] parsed.outcome = "Incomplete" -> [cleared EXCEPT !.status = "EOFError"]
          [] parsed.outcome = "Complete" ->
                [cleared EXCEPT !.status = "running", !.code = parsed.program]

\* exec once the main loop is left (k >= n): the metrics are returned and
\* the finally clause commits the pointer
ExecExit(s) == [s EXCEPT !.status = "done", !.self_pointer = s.pointer]

RECURSIVE ExecLoop(_, _)
\* the main loop run to its end, in at most fuel iterations
ExecLoop(s, fuel) ==
    IF s.status # "running" \/ fuel = 0
    THEN s
    ELSE IF s.k < Len(s.code)
         THEN ExecLoop(ExecStep(s), fuel - 1)
         ELSE ExecExit(s)

\* a whole exec call on an engine in state s
exec(s, raw) ==
    LET entered == ExecEntry(s, raw)
    IN  ExecLoop(entered, entered.max_ops + 2)

\* the engine and the locals of its running call, as one record
Cur ==
    [input |-> input, output |-> output, wrap_values |-> wrap_values,
     max_ops |-> max_ops, mem |-> mem, self_pointer |-> self_pointer,
     status |-> status, code |-> code, k |-> k, goto |-> goto, pointer |-> pointer,
     value_ops_count |-> value_ops_count, pointer_ops_count |-> pointer_ops_count,
     io_ops_count |-> io_ops_count, jump_ops_count |-> jump_ops_count,
     ops_count |-> ops_count]

Becomes(s) ==
    /\ input' = s.input
    /\ output' = s.output
    /\ wrap_values' = s.wrap_values
    /\ max_ops' = s.max_ops
    /\ mem' = s.mem
    /\ self_pointer' = s.self_pointer
    /\ status' = s.status
    /\ code' = s.code
    /\ k' = s.k
    /\ goto' = s.goto
    /\ pointer' = s.pointer
    /\ value_ops_count' = s.value_ops_count
    /\ pointer_ops_count' = s.pointer_ops_count
    /\ io_ops_count' = s.io_ops_count
    /\ jump_ops_count' = s.jump_ops_count
    /\ ops_count' = s.ops_count

\* what a later call can see of the engine
Snapshot == [mem |-> mem, self_pointer |-> self_pointer, input |-> input, output |-> output]

\* the instructions the running call has applied so far, by class: + and -,
\* < and >, . and , and the brackets
NoneExecuted == [value |-> 0, pointer |-> 0, io |-> 0, jump |-> 0]

ClassOf(instr) ==
    CASE instr \in {43, 45} -> "value"
      [] instr \in {60, 62} -> "pointer"
      [] instr \in {44, 46} -> "io"
      [] instr \in {91, 93} -> "jump"

\* BrainfuckInterpreter.__init__ with the given arguments, no call made yet
NewEngine(in, mem_size, wrap, ops) ==
    /\ input = in
    /\ output = <<>>
    /\ wrap_values = wrap
    /\ max_ops = ops
    /\ mem = ZeroMem(mem_size)
    /\ self_pointer = 0
    /\ status = "idle"
    /\ code = <<>>
    /\ k = 0
    /\ goto = <<>>
    /\ pointer = 0
    /\ value_ops_count = 0
    /\ pointer_ops_count = 0
    /\ io_ops_count = 0
    /\ jump_ops_count = 0
    /\ ops_count = 0
    /\ nexec = 0
    /\ applied = 0
    /\ executed = NoneExecuted
    /\ hist = [start |-> Snapshot, prev_start |-> Snapshot,
               prev_code |-> <<>>, prev_status |-> "idle", raw |-> <<>>]

InitParser ==
    /\ level = NewParser.level
    /\ buffer = NewParser.buffer
    /\ parse_out = [outcome |-> "idle", program |-> <<>>]
    /\ parse_acc = <<>>
    /\ parse_prev = "idle"
    /\ parse_prev2 = "idle"

Init ==
    /\ InitParser
    /\ \E in \in InputStreams, mem_size \in 1 .. MaxMem, wrap \in BOOLEAN,
          ops \in {MinMaxOps, MaxCodeLen, MaxOps} :
            NewEngine(in, mem_size, wrap, ops)

\* a call of exec; calls are sequential, none starts while one is running
ExecCall(raw) ==
    /\ status # "running"
    /\ Becomes(ExecEntry(Cur, raw))
    /\ nexec' = nexec + 1
    /\ applied' = 0
    /\ executed' = NoneExecuted
    /\ hist' = [start |-> Snapshot, prev_start |-> hist.start,
                prev_code |-> code, prev_status |-> status, raw |-> raw]
    /\ UNCHANGED parser_vars

\* one iteration of the main loop
Step ==
    /\ status = "running"
    /\ k < Len(code)
    /\ Becomes(ExecStep(Cur))
    /\ applied' = IF status' = "running" THEN applied + 1 ELSE applied
    /\ executed' = IF status' = "running"
                   THEN [executed EXCEPT ![ClassOf(code[k + 1])] = @ + 1]
                   ELSE executed
    /\ UNCHANGED <<nexec, hist, parser_vars>>

\* the main loop is left and exec returns
ExecReturn ==
    /\ status = "running"
    /\ k >= Len(code)
    /\ Becomes(ExecExit(Cur))
    /\ UNCHANGED <<obs_vars, parser_vars>>

\* one exec call on a fresh engine
Next ==
    \/ nexec = 0 /\ \E raw \in Codes : ExecCall(raw)
    \/ Step
    \/ ExecReturn

Spec == Init /\ [][Next]_vars

\* parse calls on one parser instance
NextParser == \E bytes \in ParseInputs : Parse(bytes)

\* a parser, beside an engine constructed with the default wrap_values
ParserInit ==
    /\ InitParser
    /\ NewEngine(<<>>, MaxMem, FALSE, MaxOps)

ParserSpec == ParserInit /\ [][NextParser]_vars

----------------------------------------------------------------------------
(* Successive exec calls on one engine *)

\* exec calls made on one engine
MaxExecs == 2

\* longest generated code of a call in a session of several calls
MaxFragLen == 1

\* the session of the class docstring, and fragments with a loop or a read
SessionPrograms ==
    { <<43, 43, 43>>,                                              \* +++
      <<91, 62, 46, 43, 43, 60, 45, 93, 62>>,                      \* [>.++<-]>
      <<46, 60>>,                                                  \* .<
      <<91, 45, 93>>,                                              \* [-]
      <<44, 91, 46, 45, 93>>,                                      \* ,[.-]
      <<43, 91, 91, 45, 93, 93>>,                                  \* +[[-]]
      <<43, 91, 43, 93>>,                                          \* +[+]  (endless)
      <<44, 44, 44>>,                                              \* ,,,   (reads past the input)
      <<62, 43, 62>>,                                              \* >+>   (leaves a tape of 2 cells)
      <<93>>,                                                      \* ]     (syntax error)
      <<62, 43, 91, 60>> }                                         \* >+[<  (incomplete)

Frags == SeqsUpTo({43, 45, 62, 46}, MaxFragLen) \cup SessionPrograms

SessionInit ==
    /\ InitParser
    /\ \E wrap \in BOOLEAN : NewEngine(<<3, 2>>, MaxMem, wrap, MaxOps)

SessionNext ==
    \/ nexec < MaxExecs /\ status # "running" /\ \E raw \in Frags : ExecCall(raw)
    \/ Step
    \/ ExecReturn

SessionSpec == SessionInit /\ [][SessionNext]_vars

----------------------------------------------------------------------------
(* What the claims speak of *)

\* the operator bytes of a sequence of bytes, in their order
Kept(bytes) == SelectSeq(bytes, LAMBDA b : b \in Operators)

\* opening minus closing brackets among the first n bytes of s
Depth(s, n) ==
    Cardinality({j \in 1 .. n : s[j] = 91}) - Cardinality({j \in 1 .. n : s[j] = 93})

\* some ] of s has nothing before it, or closes no open loop, or follows a [
BracketViolation(s) ==
    \E i \in 1 .. Len(s) :
        /\ s[i] = 93
        /\ \/ i = 1
           \/ Depth(s, i - 1) = 0
           \/ s[i - 1] = 91

WellFormed(s) ==
    /\ \A i \in 1 .. Len(s) : s[i] \in {43, 45, 62, 60, 46, 44, 91, 93}
    /\ \A n \in 0 .. Len(s) : Depth(s, n) >= 0
    /\ Depth(s, Len(s)) = 0
    /\ \A i \in 1 .. Len(s) - 1 : ~(s[i] = 91 /\ s[i + 1] = 93)

\* the 0-based index of the ] that matches the [ at 0-based index i of prog
MatchingEnd(prog, i) ==
    CHOOSE j \in i + 1 .. Len(prog) - 1 :
        /\ prog[j + 1] = 93
        /\ Depth(prog, j + 1) = Depth(prog, i)
        /\ \A m \in i + 1 .. j - 1 : ~(prog[m + 1] = 93 /\ Depth(prog, m + 1) = Depth(prog, i))

\* the main loop is about to apply the instruction at k (the ceiling is not hit)
Applying(instr) ==
    /\ status = "running"
    /\ k < Len(code)
    /\ code[k + 1] = instr
    /\ ops_count < max_ops

\* C1: a loop-start executed on a zero cell continues right after its matching
\* loop-end, with tape, cursor and jump stack unchanged
C1_SkipPastMatchingEnd ==
    [][Applying(91) /\ mem[pointer] = 0
         => /\ status' = "running"
            /\ k' = MatchingEnd(code, k) + 1
            /\ UNCHANGED <<mem, pointer, goto>>]_vars

\* C2: a parse call that follows Incomplete calls ends as a one-shot parse of
\* the concatenated inputs does, and leaves the same parser state
C2_IncrementalIsOneShot ==
    parse_prev = "Incomplete" =>
        LET one == bf_parse(parse_acc)
        IN  /\ parse_out = [outcome |-> one.outcome, program |-> one.program]
            /\ level = one.level
            /\ buffer = one.buffer

C2_Witness ==
    /\ parse_prev = "Incomplete"
    /\ parse_out.outcome = "Complete"
    /\ Len(parse_acc) > 2 * MaxInputLen
    /\ Len(parse_out.program) >= 4

\* C3: parse raises SyntaxError exactly when the kept bytes accumulated so far
\* hold a bracket violation, and then returns no program
C3_SyntaxErrorIffViolation ==
    parse_out.outcome # "idle" =>
        /\ parse_out.outcome = "SyntaxError" <=> BracketViolation(Kept(parse_acc))
        /\ parse_out.outcome = "SyntaxError" => parse_out.program = <<>>

C3_Witness ==
    /\ parse_prev = "Incomplete"
    /\ parse_out.outcome = "SyntaxError"
    /\ Depth(Kept(parse_acc), Len(Kept(parse_acc))) > 0

\* C4: without a bracket violation, open loops at the end of the input give
\* Incomplete with the counter and the kept bytes retained, and none open
\* gives a complete program
C4_IncompleteOrComplete ==
    LET kept == Kept(parse_acc)
        open == Depth(kept, Len(kept))
    IN  (parse_out.outcome # "idle" /\ ~BracketViolation(kept)) =>
            /\ open > 0 => /\ parse_out = [outcome |-> "Incomplete", program |-> <<>>]
                           /\ level = open
                           /\ buffer = Deque(kept)
            /\ open = 0 => parse_out = [outcome |-> "Complete", program |-> kept]
            /\ open >= 0

C4_Witness ==
    /\ parse_out.outcome = "Incomplete"
    /\ level = 2
    /\ Len(buffer.items) > level

\* C5: a complete program is well-formed: operator bytes only, brackets
\* balanced and never closing more than was opened, no empty loop
C5_CompleteIsWellFormed ==
    parse_out.outcome = "Complete" => WellFormed(parse_out.program)

C5_Witness ==
    /\ parse_out.outcome = "Complete"
    /\ parse_prev = "Incomplete"
    /\ \E i \in 1 .. Len(parse_out.program) - 1 :
           parse_out.program[i] = 91 /\ parse_out.program[i + 1] = 91

\* C6: the bytes that are no operators do not count: the outcome is that of
\* the operator bytes alone, which are kept in their order
C6_NonOperatorsIgnored ==
    parse_out.outcome # "idle" =>
        LET kept == Kept(parse_acc)
            alone == bf_parse(kept)
        IN  /\ parse_out = [outcome |-> alone.outcome, program |-> alone.program]
            /\ parse_out.outcome = "Complete" => parse_out.program = kept
            /\ (\A i \in 1 .. Len(parse_acc) : parse_acc[i] \in Operators \ {91, 93})
                   => parse_out = [outcome |-> "Complete", program |-> parse_acc]
            /\ kept = <<>> => parse_out = [outcome |-> "Complete", program |-> <<>>]

C6_Witness ==
    /\ parse_out.outcome = "SyntaxError"
    /\ \E i \in 1 .. Len(parse_acc) - 2 :
           parse_acc[i] = 91 /\ parse_acc[i + 1] = 32 /\ parse_acc[i + 2] = 93
    /\ ~BracketViolation(SubSeq(parse_acc, 1, Len(parse_acc) - 1))

\* C7: once a call has returned a complete program the parser is as new: no
\* counter, no buffer, and the next call ends as on a fresh parser
C7_CompleteResets ==
    /\ parse_out.outcome = "Complete" => level = 0 /\ buffer = NoneBuffer
    /\ parse_prev = "Complete" =>
           LET fresh == bf_parse(parse_acc)
           IN  /\ parse_out = [outcome |-> fresh.outcome, program |-> fresh.program]
               /\ level = fresh.level
               /\ buffer = fresh.buffer

C7_Witness ==
    /\ parse_prev = "Complete"
    /\ parse_out.outcome = "Complete"
    /\ Len(parse_out.program) = MaxInputLen

\* the engine as it stood when a call started, with no call running
AsStarted(snap) ==
    [Cur EXCEPT !.mem = snap.mem, !.self_pointer = snap.self_pointer,
                !.input = snap.input, !.output = snap.output, !.status = "idle"]

\* C8: two successful exec calls in a row leave the tape, the cursor and the
\* output that one exec of the concatenated code leaves, started from the
\* same engine state, unless that one call hits the operation ceiling
C8_ExecCallsCompose ==
    (nexec >= 2 /\ status = "done" /\ hist.prev_status = "done") =>
        LET whole == exec(AsStarted(hist.prev_start), hist.prev_code \o code)
        IN  \/ whole.status = "RuntimeError"
            \/ /\ whole.status = "done"
               /\ whole.mem = mem
               /\ whole.self_pointer = self_pointer
               /\ whole.output = output
               /\ whole.input = input

C8_Witness ==
    /\ nexec >= 2 /\ status = "done" /\ hist.prev_status = "done"
    /\ hist.prev_code = <<43, 43, 43>>
    /\ code = <<91, 62, 46, 43, 43, 60, 45, 93, 62>>
    /\ self_pointer = 1
    /\ output = <<0, 2, 4>>

\* C9: RuntimeError is raised exactly on the attempt to execute instruction
\* max_ops + 1: the count is then max_ops + 1, max_ops instructions have been
\* applied and the last one changes nothing; max_ops instructions can succeed
C9_OperationCeiling ==
    /\ [](/\ status = "RuntimeError" => ops_count = max_ops + 1 /\ applied = max_ops
          /\ status \in {"running", "done", "OverflowError", "IndexError", "TypeError"}
                => ops_count <= max_ops
          /\ status \in {"running", "done"} => applied = ops_count)
    /\ [][(status = "running" /\ k < Len(code))
            => /\ status' = "RuntimeError" <=> ops_count = max_ops
               /\ status' = "RuntimeError"
                    => /\ UNCHANGED <<mem, pointer, input, output, goto, k>>
                       /\ self_pointer' = pointer]_vars

C9_Witness ==
    /\ status = "RuntimeError"
    /\ max_ops = MaxOps
    /\ jump_ops_count > 2

\* C10: + and - fail with OverflowError on 0xFF and 0x00 when wrap_values is
\* off, leaving the cell; they wrap to 0x00 and 0xFF when it is on; elsewhere
\* they add and subtract 1; only the cell under the cursor changes and every
\* cell stays a byte
C10_ValueWraparound ==
    /\ [](\A i \in DOMAIN mem : mem[i] \in 0 .. 255)
    /\ [][\A instr \in {43, 45} : Applying(instr) =>
            LET cell == mem[pointer]
                edge == IF instr = 43 THEN 255 ELSE 0
            IN  IF cell = edge /\ ~wrap_values
                THEN status' = "OverflowError" /\ mem' = mem
                ELSE /\ status' = "running"
                     /\ mem' = [mem EXCEPT ![pointer] =
                                   IF cell = edge THEN 255 - edge
                                   ELSE IF instr = 43 THEN cell + 1 ELSE cell - 1]]_vars

C10_Witness ==
    /\ status = "OverflowError"
    /\ ~wrap_values
    /\ mem[pointer] = 255
    /\ code[k + 1] = 43

\* the cursor is on the edge of the tape that instruction < or > moves over
AtEdge ==
    \/ Applying(60) /\ pointer = 0
    \/ Applying(62) /\ pointer = Cardinality(DOMAIN mem) - 1

\* C11: < at index 0 and > at the last index raise IndexError whatever
\* wrap_values is, leaving cursor and tape; exec raises IndexError in these
\* two situations only
C11_OutOfBoundsOnlyAtEdges ==
    [][(status = "running" /\ k < Len(code)) =>
          /\ AtEdge => status' = "IndexError" /\ mem' = mem /\ pointer' = pointer
          /\ status' = "IndexError" => AtEdge]_vars

\* the exceptions raised while the code runs
Failures == {"OverflowError", "IndexError", "TypeError", "RuntimeError"}

\* C12: a call that fails while running commits the cursor as the last applied
\* instruction left it and keeps the tape as it is (the failing instruction
\* changes nothing, nothing is undone); the next call starts from that tape
\* and cursor
C12_StateCommittedOnFailure ==
    /\ [](status \in Failures => self_pointer = pointer)
    /\ [][(status = "running" /\ status' \in Failures)
            => /\ mem' = mem /\ pointer' = pointer
               /\ input' = input /\ output' = output]_vars
    /\ [][(status \in Failures /\ status' = "running")
            => mem' = mem /\ pointer' = self_pointer]_vars

C12_Witness ==
    /\ nexec = 2
    /\ hist.prev_status = "IndexError"
    /\ status = "done"
    /\ hist.start.self_pointer = 1
    /\ hist.start.mem[1] = 1
    /\ mem[1] = 2

\* the exceptions a malformed argument is refused with, by parse and by the
\* constructor of the engine
InvalidArgument == {"TypeError", "ValueError"}

\* the exceptions exec raises for the failures that are no end of input
OtherFailures == {"SyntaxError", "EOFError", "OverflowError", "IndexError", "RuntimeError"}

\* C13: , on an exhausted input raises an error of a kind of its own, neither
\* that of a malformed argument nor that of any other failure, and leaves the
\* cell; otherwise it stores the byte read modulo 256 and consumes that byte
C13_ReadAtEndOfInput ==
    [][Applying(44) =>
          IF input = <<>>
          THEN /\ status' \notin {"running", "done"}
               /\ status' \notin InvalidArgument \cup OtherFailures
               /\ mem' = mem
          ELSE /\ status' = "running"
               /\ mem' = [mem EXCEPT ![pointer] = Head(input) % 256]
               /\ input' = Tail(input)]_vars

\* C14: the five counters are never negative and ops_count is the sum of the
\* other four, at every point of a call and in the metrics returned; every
\* call starts them at 0, so the metrics returned count that call alone
C14_MetricsConsistent ==
    /\ [](/\ value_ops_count >= 0 /\ pointer_ops_count >= 0
          /\ io_ops_count >= 0 /\ jump_ops_count >= 0 /\ ops_count >= 0
          /\ ops_count = value_ops_count + pointer_ops_count
                           + io_ops_count + jump_ops_count
          /\ status = "done" => ops_count = applied)
    /\ [][nexec' = nexec + 1
            => /\ value_ops_count' = 0 /\ pointer_ops_count' = 0
               /\ io_ops_count' = 0 /\ jump_ops_count' = 0 /\ ops_count' = 0]_vars

C14_Witness ==
    /\ nexec = 2
    /\ hist.prev_status = "done"
    /\ hist.prev_code = <<43, 43, 43>>
    /\ status = "done"
    /\ code = <<91, 62, 46, 43, 43, 60, 45, 93, 62>>
    /\ value_ops_count = 9 /\ pointer_ops_count = 7
    /\ io_ops_count = 3 /\ jump_ops_count = 4 /\ ops_count = 23

\* the last call was given code that the engine, its input and its output
\* show no trace of
Untouched == Snapshot = hist.start /\ applied = 0

\* C15: exec given code with a bracket violation raises SyntaxError, and given
\* incomplete code (an unclosed [) raises EOFError; either way no instruction
\* is executed, tape and cursor are as before the call, nothing is read from
\* the input and nothing is written to the output
C15_InvalidCodeDoesNothing ==
    nexec >= 1 =>
        LET ops == Kept(hist.raw)
        IN  /\ BracketViolation(ops) => status = "SyntaxError" /\ Untouched
            /\ (~BracketViolation(ops) /\ Depth(ops, Len(ops)) > 0)
                  => status = "EOFError" /\ Untouched

C15_Witness ==
    /\ nexec = 2
    /\ hist.prev_status = "IndexError"
    /\ hist.raw = <<93>>
    /\ status = "SyntaxError"
    /\ mem[1] = 1 /\ self_pointer = 1

-----------------------------------------------------------------------------
(* The countdown loop: n times + and then [.-], on a fresh engine *)

\* the largest value of a cell
MaxByte == 255

\* max_ops of an engine constructed without the argument
DefaultMaxOps == 1000000

Countdown(n) == [i \in 1 .. n |-> 43] \o <<91, 46, 45, 93>>

CountdownInit ==
    /\ InitParser
    /\ NewEngine(<<>>, MaxMem, FALSE, DefaultMaxOps)

CountdownNext ==
    \/ nexec = 0 /\ \E n \in 1 .. MaxByte : ExecCall(Countdown(n))
    \/ Step
    \/ ExecReturn

CountdownSpec == CountdownInit /\ [][CountdownNext]_vars

-----------------------------------------------------------------------------

\* the 0-based index of the [ that the ] at 0-based index j of prog closes
MatchingBegin(prog, j) ==
    CHOOSE i \in 0 .. j - 1 :
        /\ prog[i + 1] = 91
        /\ Depth(prog, i) = Depth(prog, j + 1)
        /\ \A m \in i + 1 .. j - 1 : Depth(prog, m) > Depth(prog, i)

\* C17: whenever a ] is executed the jump stack is not empty and its top is
\* the index of the [ that this ] closes; the depth of the stack is the
\* number of loops entered and not yet left; an entry is popped only by a ]
\* executed on a zero cell
C17_JumpStackDiscipline ==
    /\ [](Applying(93) => /\ goto # <<>>
                          /\ goto[Len(goto)] = MatchingBegin(code, k))
    /\ [](status = "running" => Len(goto) = Depth(code, k))
    /\ [][(status = "running" /\ Len(goto') < Len(goto))
            => /\ Applying(93) /\ mem[pointer] = 0
               /\ goto' = SubSeq(goto, 1, Len(goto) - 1)]_vars

\* C18: in every state of an engine, before any call, between the instructions
\* of a call, after a call that returned and after a call that raised, the
\* cursor is an index of the tape, and the tape keeps the length it was
\* constructed with
C18_CursorInvariant ==
    /\ [](/\ DOMAIN mem = 0 .. Cardinality(DOMAIN mem) - 1
          /\ Cardinality(DOMAIN mem) >= 1
          /\ self_pointer \in DOMAIN mem
          /\ pointer \in DOMAIN mem)
    /\ [][DOMAIN mem' = DOMAIN mem]_vars

C18_Witness ==
    /\ nexec >= 2
    /\ status = "IndexError"
    /\ k < Len(code) /\ code[k + 1] = 62
    /\ hist.start.self_pointer = Cardinality(DOMAIN mem) - 1
    /\ self_pointer = Cardinality(DOMAIN mem) - 1

\* the buckets of the metrics
Buckets ==
    [value |-> value_ops_count, pointer |-> pointer_ops_count,
     io |-> io_ops_count, jump |-> jump_ops_count]

\* C19: when exec returns, each bucket is the number of instructions of its
\* class that the call executed and the total is their number. A ] executed
\* on a non-zero cell is counted and leads to the instruction after its [,
\* which is not executed again; a [ executed on a zero cell is counted once
\* and leads past a ] that is neither executed nor counted. For ++[>+<-] on a
\* fresh engine: value 6, pointer 4, jump 3, total 13
C19_BucketCounts ==
    /\ [](status = "done" => Buckets = executed /\ ops_count = applied)
    /\ [](status = "done" /\ code = <<43, 43, 91, 62, 43, 60, 45, 93>>
            => /\ Buckets = [value |-> 6, pointer |-> 4, io |-> 0, jump |-> 3]
               /\ ops_count = 13)
    /\ [][(Applying(93) /\ mem[pointer] # 0 /\ status' = "running")
            => /\ jump_ops_count' = jump_ops_count + 1
               /\ ops_count' = ops_count + 1
               /\ k' >= 1 /\ code[k'] = 91 /\ k' - 1 = goto[Len(goto)]
               /\ goto' = goto]_vars
    /\ [][(Applying(91) /\ mem[pointer] = 0 /\ status' = "running")
            => /\ jump_ops_count' = jump_ops_count + 1
               /\ ops_count' = ops_count + 1
               /\ k' > k + 2 /\ code[k'] = 93
               /\ goto' = goto]_vars

C19_Witness ==
    /\ status = "done"
    /\ code = <<43, 43, 91, 62, 43, 60, 45, 93>>
    /\ executed = [value |-> 6, pointer |-> 4, io |-> 0, jump |-> 3]
    /\ jump_ops_count = 3 /\ ops_count = 13
    /\ mem[0] = 0 /\ mem[1] = 2

-----------------------------------------------------------------------------
(* Termination *)

\* a first call that leaves the tape, the cursor and the input in some state:
\* nothing, +, - (255 when values wrap), >, >+ and , (a value read)
Setups == {<<>>, <<43>>, <<45>>, <<62>>, <<62, 43>>, <<44>>}

\* the programs of the call that follows
TermPrograms == ExamplePrograms \cup EndlessPrograms \cup SessionPrograms

TermInit ==
    /\ InitParser
    /\ \E wrap \in BOOLEAN, ops \in {MinMaxOps, MaxOps} :
          NewEngine(<<3, 2>>, MaxMem, wrap, ops)

TermNext ==
    \/ nexec = 0 /\ \E raw \in Setups : ExecCall(raw)
    \/ nexec = 1 /\ status # "running" /\ \E raw \in TermPrograms : ExecCall(raw)
    \/ Step
    \/ ExecReturn

\* exec is one sequential call: once begun, the iterations of its loop and
\* its return are taken as long as they can be
TerminationSpec ==
    TermInit /\ [][TermNext]_vars /\ WF_vars(Step) /\ WF_vars(ExecReturn)

\* C20: every exec call of a complete program, whatever the tape, the cursor
\* and the input it starts from, returns or raises after at most max_ops + 1
\* iterations of the main loop, each iteration being one more operation
\* counted; the scan of a [ executed on a zero cell stops at a ] of the
\* program without reading past its end
C20_ExecTerminates ==
    /\ (status = "running") ~> (status # "running")
    /\ [](ops_count <= max_ops + 1)
    /\ [][status = "running" => ops_count' = ops_count + 1 \/ status' = "done"]_vars
    /\ [][(Applying(91) /\ mem[pointer] = 0)
            => /\ status' = "running"
               /\ k' <= Len(code) /\ code[k'] = 93]_vars

C20_Witness ==
    /\ nexec = 2
    /\ hist.prev_status = "done"
    /\ hist.start.mem[0] = 255
    /\ code = <<91, 45, 93>>
    /\ status = "RuntimeError"
    /\ ops_count = max_ops + 1

-----------------------------------------------------------------------------

\* C21: once a parse call has raised SyntaxError the parser is as new, counter
\* 0 and no buffer, also when earlier Incomplete calls had left a partial
\* program in it: that program is gone, and the next call ends as the same
\* input ends on a fresh parser
C21_SyntaxErrorResets ==
    /\ parse_out.outcome = "SyntaxError" => level = 0 /\ buffer = NoneBuffer
    /\ parse_prev = "SyntaxError" =>
           LET fresh == bf_parse(parse_acc)
           IN  /\ parse_out = [outcome |-> fresh.outcome, program |-> fresh.program]
               /\ level = fresh.level
               /\ buffer = fresh.buffer

C21_Witness ==
    /\ parse_prev2 = "Incomplete"
    /\ parse_prev = "SyntaxError"
    /\ parse_out.outcome = "Complete"
    /\ parse_out.program = parse_acc
    /\ Len(parse_acc) = MaxInputLen
    /\ level = 0 /\ buffer = NoneBuffer

====
